---- MODULE Spec2Model ----
(***************************************************************************)
(* Model of the freelance take-home calculator (src/src/App.tsx).          *)
(*                                                                         *)
(* Numbers.  The program computes with JavaScript numbers (IEEE binary64). *)
(* Finite values are modelled by integers in fixed point, with the unit    *)
(* stated at each definition, and every Math.floor(x * rate) is computed   *)
(* exactly from numerator and denominator (FloorMulDiv).  The non-finite   *)
(* values the program can produce are modelled by the values NaN, PosInf   *)
(* and Huge (a finite value of the order 1e308, whose multiple by 12       *)
(* overflows to Infinity); Null is what JSON.stringify writes for a NaN or *)
(* an Infinity.  The division by 1.1 in calculateWithholding is modelled   *)
(* with its binary64 rounding (Div1_1).  The other products are modelled   *)
(* exactly: in binary64 a floor can come out one lower where the exact     *)
(* product is a whole number.                                              *)
(*                                                                         *)
(* Strings.  Prefectures and business types are written in ASCII:          *)
(* Tokyo = 東京都, Osaka = 大阪府, Kanagawa = 神奈川県, Aichi = 愛知県,     *)
(* Fukuoka = 福岡県, Hokkaido = 北海道, Saitama = 埼玉県, Chiba = 千葉県,   *)
(* Hyogo = 兵庫県, Kyoto = 京都府, Other = その他; Sales = 物品販売業,      *)
(* Manufacturing = 製造業, Contracting = 請負業, Consulting =              *)
(* コンサルタント業, Design = デザイン業, Programming = プログラミング業,   *)
(* OtherBusiness = その他の事業, Exempt = 非課税.                          *)
(***************************************************************************)
EXTENDS Integers, Sequences, FiniteSets, TLC

(***************************************************************************)
(* JavaScript number values outside the finite range of the model.         *)
(***************************************************************************)
NaN == -2000000000
PosInf == 2000000000
Huge == 1999999999
Null == -1999999999

\* x is a finite value in the range of the model
IsOrdinary(x) == x \notin {NaN, PosInf, Huge, Null}

\* isNaN(x) of JavaScript (null converts to 0, which is a number)
isNaN(x) == x = NaN

(***************************************************************************)
(* Exact integer arithmetic within 32 bits.                                *)
(***************************************************************************)
\* <<q, r>> with n * m = q * d + r and 0 <= r < d, for n, m >= 0 and
\* 0 < d < 2^30, computed without forming the product n * m.
RECURSIVE MulDivQR(_, _, _)
MulDivQR(n, m, d) ==
    IF m = 0 THEN <<0, 0>>
    ELSE LET h == MulDivQR(n, m \div 2, d)
             q2 == 2 * h[1] + (2 * h[2]) \div d
             r2 == (2 * h[2]) % d
         IN  IF m % 2 = 0 THEN <<q2, r2>>
             ELSE <<q2 + (n \div d) + (r2 + (n % d)) \div d, (r2 + (n % d)) % d>>

\* Math.floor(n * m / d) for n, m >= 0
FloorMulDiv(n, m, d) == MulDivQR(n, m, d)[1]

Max(a, b) == IF a >= b THEN a ELSE b
Min(a, b) == IF a <= b THEN a ELSE b

(***************************************************************************)
(* calculateWithholding                                                    *)
(***************************************************************************)
\* A binary64 value n/d, or the double just below it when lo is set; a
\* non-finite n stands for itself.
Exact(a) == [n |-> a, d |-> 1, lo |-> FALSE]

\* The largest power of two that is at most q, for q >= 1
RECURSIVE Pow2Floor(_)
Pow2Floor(q) == IF q < 2 THEN 1 ELSE 2 * Pow2Floor(q \div 2)

\* x / 1.1 for a whole number x.  The double 1.1 is 1.1 * (1 + 8.07e-17), so
\* the quotient is rounded to the double below 10x/11 when 10x/11 is a whole
\* number q whose significand q / 2^floor(log2 q) exceeds 1.375; in every other
\* case the rounding error changes neither a comparison with a whole number nor
\* the floor of a product with a four-digit rate.
Div1_1(x) ==
    IF ~IsOrdinary(x.n) THEN x
    ELSE LET q == (10 * x.n) \div 11
         IN  [n |-> 10 * x.n, d |-> 11,
              lo |-> x.n > 0 /\ x.n % 11 = 0 /\ 8 * q > 11 * Pow2Floor(q)]

\* x >= k for a whole number k
AtLeast(x, k) ==
    IF x.n = NaN THEN FALSE
    ELSE IF ~IsOrdinary(x.n) THEN TRUE
    ELSE x.n > k * x.d \/ (x.n = k * x.d /\ ~x.lo)

\* Math.floor(x * r) for the rate r = m / 10000
FloorRate(x, m) ==
    IF ~IsOrdinary(x.n) THEN x.n
    ELSE LET qr == MulDivQR(x.n, m, x.d * 10000)
         IN  IF x.lo /\ qr[2] = 0 THEN qr[1] - 1 ELSE qr[1]

\* x > k for a whole number k
MoreThan(x, k) ==
    IF x.n = NaN THEN FALSE
    ELSE IF ~IsOrdinary(x.n) THEN TRUE
    ELSE x.n > k * x.d

\* Variant: the higher rate only above 1,000,000
calculateWithholdingStrictTier(amount, includesTax) ==
    LET baseAmount == IF includesTax THEN Div1_1(amount) ELSE amount
    IN  IF MoreThan(baseAmount, 1000000) THEN FloorRate(baseAmount, 2042)
        ELSE FloorRate(baseAmount, 1021)

\* Variant: the rate tier chosen from the amount as entered
calculateWithholdingAmountTier(amount, includesTax) ==
    LET baseAmount == IF includesTax THEN Div1_1(amount) ELSE amount
    IN  IF AtLeast(amount, 1000000) THEN FloorRate(baseAmount, 2042)
        ELSE FloorRate(baseAmount, 1021)

calculateWithholding(amount, includesTax) ==
    LET baseAmount == IF includesTax THEN Div1_1(amount) ELSE amount
    IN  IF AtLeast(baseAmount, 1000000) THEN FloorRate(baseAmount, 2042)
        ELSE FloorRate(baseAmount, 1021)

(***************************************************************************)
(* Rate tables                                                             *)
(***************************************************************************)
\* incomeRate in ten-thousandths, flatRate in yen
HEALTH_INSURANCE_RATES ==
    [Tokyo    |-> [incomeRate |-> 976,  flatRate |-> 53400],
     Osaka    |-> [incomeRate |-> 1012, flatRate |-> 49152],
     Kanagawa |-> [incomeRate |-> 931,  flatRate |-> 48500],
     Aichi    |-> [incomeRate |-> 889,  flatRate |-> 45600],
     Fukuoka  |-> [incomeRate |-> 1043, flatRate |-> 42300],
     Hokkaido |-> [incomeRate |-> 1087, flatRate |-> 39800],
     Saitama  |-> [incomeRate |-> 925,  flatRate |-> 47100],
     Chiba    |-> [incomeRate |-> 945,  flatRate |-> 46200],
     Hyogo    |-> [incomeRate |-> 998,  flatRate |-> 44100],
     Kyoto    |-> [incomeRate |-> 967,  flatRate |-> 46800],
     Other    |-> [incomeRate |-> 950,  flatRate |-> 45000]]

Prefectures == DOMAIN HEALTH_INSURANCE_RATES

\* HEALTH_INSURANCE_RATES is an object literal: an index that is no key of its
\* own reads the property of that name of Object.prototype when there is one
\* (a function or an object, which is truthy and has no incomeRate or flatRate)
\* and is undefined otherwise.
ObjectPrototypeKeys ==
    {"constructor", "toString", "toLocaleString", "valueOf", "hasOwnProperty",
     "isPrototypeOf", "propertyIsEnumerable", "__proto__"}

BUSINESS_TAX_TYPES ==
    {"Sales", "Manufacturing", "Contracting", "Consulting", "Design",
     "Programming", "OtherBusiness"}

(***************************************************************************)
(* calculateDetailedTax.  annualIncome is in yen; revenue and taxableIncome *)
(* are carried in hundredths of a yen, the results are in yen.              *)
(***************************************************************************)
\* revenue = annualIncome - annualIncome * (expenseRate / 100), in hundredths
Revenue(annualIncome, settings) == annualIncome * (100 - settings.expenseRate)

blueReturnDeduction(settings) ==
    IF settings.blueReturnType = "65" THEN 650000
    ELSE IF settings.blueReturnType = "55" THEN 550000
    ELSE IF settings.blueReturnType = "10" THEN 100000
    ELSE 0

\* blueReturnDeduction + basicDeduction + spouseDeduction + dependentDeduction
\* + socialInsuranceDeduction, in yen
Deductions(settings) ==
    blueReturnDeduction(settings) + 480000
        + (IF settings.spouseDeduction THEN 380000 ELSE 0)
        + settings.dependents * 380000 + 199200

\* Variant: no clamp at 0
TaxableIncomeUnclamped(annualIncome, settings) ==
    Revenue(annualIncome, settings) - 100 * Deductions(settings)

\* Math.max(0, revenue - ...), in hundredths
TaxableIncome(annualIncome, settings) ==
    Max(0, Revenue(annualIncome, settings) - 100 * Deductions(settings))

\* Math.floor((c + (taxableIncome - threshold) * p / 100) * 1.021) with c and
\* threshold in yen and v = taxableIncome - threshold in hundredths:
\* v * p * 1021 = q * 10^7 + r, so the value is q + floor((c * 1021 + r / 10^4) / 1000).
BracketTax(c, v, p) ==
    LET qr == MulDivQR(v, p * 1021, 10000000)
    IN  qr[1] + (c * 1021 + qr[2] \div 10000) \div 1000

\* Variant: every bracket taxes its own slice only and drops the tax of the
\* slices below it
IncomeTaxTopSlice(taxableIncome) ==
    IF taxableIncome <= 195000000 THEN BracketTax(0, taxableIncome, 5)
    ELSE IF taxableIncome <= 330000000
        THEN BracketTax(0, taxableIncome - 195000000, 10)
    ELSE IF taxableIncome <= 695000000
        THEN BracketTax(0, taxableIncome - 330000000, 20)
    ELSE IF taxableIncome <= 900000000
        THEN BracketTax(0, taxableIncome - 695000000, 23)
    ELSE BracketTax(0, taxableIncome - 900000000, 33)

\* Variant: the rate of the bracket reached, applied to the whole
IncomeTaxFlatOnTotal(taxableIncome) ==
    IF taxableIncome <= 195000000 THEN BracketTax(0, taxableIncome, 5)
    ELSE IF taxableIncome <= 330000000 THEN BracketTax(0, taxableIncome, 10)
    ELSE IF taxableIncome <= 695000000 THEN BracketTax(0, taxableIncome, 20)
    ELSE IF taxableIncome <= 900000000 THEN BracketTax(0, taxableIncome, 23)
    ELSE BracketTax(0, taxableIncome, 33)

IncomeTax(taxableIncome) ==
    IF taxableIncome <= 195000000 THEN BracketTax(0, taxableIncome, 5)
    ELSE IF taxableIncome <= 330000000
        THEN BracketTax(97500, taxableIncome - 195000000, 10)
    ELSE IF taxableIncome <= 695000000
        THEN BracketTax(97500 + 135000, taxableIncome - 330000000, 20)
    ELSE IF taxableIncome <= 900000000
        THEN BracketTax(97500 + 135000 + 730000, taxableIncome - 695000000, 23)
    ELSE BracketTax(97500 + 135000 + 730000 + 471500, taxableIncome - 900000000, 33)

\* Math.floor(taxableIncome * 0.1) + 5000
ResidentTax(taxableIncome) == taxableIncome \div 1000 + 5000

\* HEALTH_INSURANCE_RATES[prefecture] || HEALTH_INSURANCE_RATES['その他'];
\* incomeRate and flatRate are NaN where the value found has no such property
insuranceRate(prefecture) ==
    IF prefecture \in Prefectures THEN HEALTH_INSURANCE_RATES[prefecture]
    ELSE IF prefecture \in ObjectPrototypeKeys
        THEN [incomeRate |-> NaN, flatRate |-> NaN]
    ELSE HEALTH_INSURANCE_RATES["Other"]

\* Variant: no ceiling
HealthInsuranceUncapped(revenue, prefecture) ==
    LET rate == insuranceRate(prefecture)
    IN  IF rate.incomeRate = NaN THEN NaN
        ELSE FloorMulDiv(revenue, rate.incomeRate, 1000000) + rate.flatRate

\* Math.min(Math.floor(revenue * incomeRate) + flatRate, 1020000)
HealthInsurance(revenue, prefecture) ==
    LET rate == insuranceRate(prefecture)
    IN  IF rate.incomeRate = NaN THEN NaN
        ELSE Min(FloorMulDiv(revenue, rate.incomeRate, 1000000) + rate.flatRate,
                 1020000)

\* Variant: no revenue threshold
BusinessTaxNoThreshold(revenue, businessType) ==
    IF businessType \in BUSINESS_TAX_TYPES
        THEN FloorMulDiv(revenue - 290000000, 5, 10000)
    ELSE 0

\* Variant: the business type is not looked at
BusinessTaxAnyType(revenue, businessType) ==
    IF revenue > 290000000 THEN FloorMulDiv(revenue - 290000000, 5, 10000)
    ELSE 0

BusinessTax(revenue, businessType) ==
    IF businessType \in BUSINESS_TAX_TYPES /\ revenue > 290000000
        THEN FloorMulDiv(revenue - 290000000, 5, 10000)
    ELSE 0

\* a + b of JavaScript for values that are whole numbers or NaN
Plus(a, b) == IF a = NaN \/ b = NaN THEN NaN ELSE a + b

calculateDetailedTax(annualIncome, settings) ==
    IF ~IsOrdinary(annualIncome)
        \* Infinity * rate is Infinity or NaN, so revenue = Infinity - expenses
        \* is NaN: every comparison with it is false and every floor of it NaN
        THEN [incomeTax |-> NaN, residentTax |-> NaN, healthInsurance |-> NaN,
              pension |-> 199200, businessTax |-> 0, total |-> NaN]
    ELSE LET revenue == Revenue(annualIncome, settings)
             taxableIncome == TaxableIncome(annualIncome, settings)
             incomeTax == IncomeTax(taxableIncome)
             residentTax == ResidentTax(taxableIncome)
             healthInsurance == HealthInsurance(revenue, settings.prefecture)
             pension == 199200
             businessTax == BusinessTax(revenue, settings.businessType)
         IN  [incomeTax |-> incomeTax,
              residentTax |-> residentTax,
              healthInsurance |-> healthInsurance,
              pension |-> pension,
              businessTax |-> businessTax,
              total |-> Plus(Plus(Plus(Plus(incomeTax, residentTax),
                                       healthInsurance), pension), businessTax)]

(***************************************************************************)
(* The App component: its state, the stores of its environment, the clock. *)
(***************************************************************************)
VARIABLES
    calculations,    \* useState<ProjectCalculation[]>, oldest first
    settings,        \* useState<UserSettings>
    result,          \* <<>> for null, <<record>> otherwise
    loadData,        \* where the loadData of the mount effect stands
    windowStorage,   \* what window.storage holds, by key
    localStorage,    \* what localStorage holds, by key
    storageKind,     \* "working", "absent" (no window.storage) or "throwing" (its set rejects)
    now,             \* Date.now()
    fetched,         \* <<>>, or <<v>> once the pending get of loadData has read v
    wAmount, wIncludesTax, wResult,    \* one evaluation of calculateWithholding
    tIncome, tSettings, tResult,       \* one evaluation of calculateDetailedTax
    tPrev,           \* <<income, total>> of the evaluation before it, or <<>>
    bTaxable, bResult                  \* one evaluation of the income tax brackets

appVars == <<calculations, settings, result, loadData,
             windowStorage, localStorage, storageKind, now, fetched>>
wVars == <<wAmount, wIncludesTax, wResult>>
tVars == <<tIncome, tSettings, tResult, tPrev>>
bVars == <<bTaxable, bResult>>
vars == <<appVars, wVars, tVars, bVars>>

\* Bounds of the model
MaxHistory == 2
MaxClock == 1

\* depositAmount and estimatedTakeHome are carried in sixtieths of a yen, which
\* holds amount * 0.1 and total / 12 exactly
Unit == 60

DefaultSettings ==
    [blueReturnType |-> "65", spouseDeduction |-> FALSE, dependents |-> 0,
     expenseRate |-> 30, prefecture |-> "Tokyo", businessType |-> "Programming"]

EmptyStore == [calculations |-> <<>>, settings |-> <<>>]

\* The amount texts of the model, each one a value the number field of the
\* form can hold, and what parseFloat makes of them
AmountInputs == {"", "0", "-5", "1e308", "100000"}

parseFloat(text) ==
    CASE text = "" -> NaN
      [] text = "0" -> 0
      [] text = "-5" -> -5
      [] text = "1e308" -> Huge
      [] text = "100000" -> 100000
      [] text = "1000000" -> 1000000

\* The texts of the dependents field of the model and parseInt(text) || 0
DependentsInputs == {"", "2", "10", "-1"}

parseIntOr0(text) ==
    CASE text = "" -> 0
      [] text = "2" -> 2
      [] text = "10" -> 10
      [] text = "-1" -> -1

(***************************************************************************)
(* Persistence                                                             *)
(***************************************************************************)
\* JSON.parse(JSON.stringify(x)) for a number: NaN and Infinity are written null
JsonNumber(x) == IF x \in {NaN, PosInf} THEN Null ELSE x

JsonBreakdown(b) ==
    [incomeTax |-> JsonNumber(b.incomeTax),
     residentTax |-> JsonNumber(b.residentTax),
     healthInsurance |-> JsonNumber(b.healthInsurance),
     pension |-> JsonNumber(b.pension),
     businessTax |-> JsonNumber(b.businessTax),
     total |-> JsonNumber(b.total)]

JsonCalculation(c) ==
    [id |-> c.id,
     amount |-> JsonNumber(c.amount),
     includesTax |-> c.includesTax,
     hasWithholding |-> c.hasWithholding,
     withholdingAmount |-> JsonNumber(c.withholdingAmount),
     depositAmount |-> JsonNumber(c.depositAmount),
     estimatedTakeHome |-> JsonNumber(c.estimatedTakeHome),
     taxBreakdown |-> JsonBreakdown(c.taxBreakdown)]

JsonCalculations(data) == [i \in DOMAIN data |-> JsonCalculation(data[i])]

\* try { await window.storage?.set(key, value) } catch { localStorage.setItem(key, value) }
StorageSet(key, value) ==
    /\ windowStorage' = IF storageKind = "working"
                            THEN [windowStorage EXCEPT ![key] = <<value>>]
                        ELSE windowStorage
    /\ localStorage' = IF storageKind = "throwing"
                           THEN [localStorage EXCEPT ![key] = <<value>>]
                       ELSE localStorage

\* <<>> for null
getFromStorage(key) ==
    IF storageKind # "absent" THEN windowStorage[key] ELSE localStorage[key]

saveCalculations(data) ==
    /\ calculations' = data
    /\ StorageSet("calculations", JsonCalculations(data))

saveSettings(newSettings) ==
    /\ settings' = newSettings
    /\ StorageSet("settings", newSettings)
    /\ UNCHANGED <<calculations, result, loadData, storageKind, now, fetched>>

(***************************************************************************)
(* handleCalculate                                                         *)
(***************************************************************************)
\* sum + calc.amount of JavaScript; a null amount counts as 0, and two values
\* of the order 1e308 add up to Infinity
PlusAmount(sum, x) ==
    LET y == IF x = Null THEN 0 ELSE x
    IN  IF sum = NaN \/ y = NaN THEN NaN
        ELSE IF sum = PosInf \/ y = PosInf THEN PosInf
        ELSE IF sum = Huge /\ y = Huge THEN PosInf
        ELSE IF sum = Huge \/ y = Huge THEN Huge
        ELSE sum + y

\* recentCalculations.reduce((sum, calc) => sum + calc.amount, 0)
RECURSIVE SumAmounts(_)
SumAmounts(calcs) ==
    IF calcs = <<>> THEN 0
    ELSE PlusAmount(SumAmounts(SubSeq(calcs, 1, Len(calcs) - 1)),
                    calcs[Len(calcs)].amount)

\* calculations.slice(-3)
Recent(calcs) == SubSeq(calcs, Max(1, Len(calcs) - 2), Len(calcs))

\* Variant: the mean of the whole history
AnnualIncomeWholeHistory(calcs, amountNum) ==
    LET sum == IF Len(calcs) > 0 THEN SumAmounts(calcs) ELSE amountNum
        n == IF Len(calcs) > 0 THEN Len(calcs) ELSE 1
    IN  IF sum = NaN THEN NaN
        ELSE IF sum \in {PosInf, Huge} THEN PosInf
        ELSE (sum * 12) \div n

\* avgMonthly * 12, in yen; a sum of the order 1e308 gives Infinity
AnnualIncome(calcs, amountNum) ==
    LET recentCalculations == Recent(calcs)
        sum == IF Len(recentCalculations) > 0 THEN SumAmounts(recentCalculations)
               ELSE amountNum
        n == IF Len(recentCalculations) > 0 THEN Len(recentCalculations) ELSE 1
    IN  IF sum = NaN THEN NaN
        ELSE IF sum \in {PosInf, Huge} THEN PosInf
        ELSE (sum * 12) \div n

\* Variant: the consumption tax is added to an amount that already holds it
DepositAmountTaxAddedTwice(amountNum, isTaxIncluded, withholdingAmount) ==
    IF amountNum = Huge THEN Huge
    ELSE Unit * amountNum + (Unit \div 10) * amountNum - Unit * withholdingAmount

\* includesTax ? amountNum - withholdingAmount
\*             : amountNum + amountNum * 0.1 - withholdingAmount, in sixtieths
DepositAmount(amountNum, isTaxIncluded, withholdingAmount) ==
    IF amountNum = Huge THEN Huge
    ELSE IF isTaxIncluded THEN Unit * (amountNum - withholdingAmount)
    ELSE Unit * amountNum + (Unit \div 10) * amountNum - Unit * withholdingAmount

\* Variant: clamped at 0
EstimatedTakeHomeClamped(depositAmount, total) ==
    IF depositAmount = NaN \/ total = NaN THEN NaN
    ELSE IF ~IsOrdinary(depositAmount) THEN depositAmount
    ELSE IF depositAmount - (Unit \div 12) * total < 0 THEN 0
    ELSE depositAmount - (Unit \div 12) * total

\* depositAmount - taxBreakdown.total / 12, in sixtieths
EstimatedTakeHome(depositAmount, total) ==
    IF depositAmount = NaN \/ total = NaN THEN NaN
    ELSE IF ~IsOrdinary(depositAmount) THEN depositAmount
    ELSE depositAmount - (Unit \div 12) * total

NewCalculation(calcs, profile, text, isTaxIncluded, isWithheld, clock) ==
    LET amountNum == parseFloat(text)
        withholdingAmount ==
            IF isWithheld THEN calculateWithholding(Exact(amountNum), isTaxIncluded)
            ELSE 0
        depositAmount == DepositAmount(amountNum, isTaxIncluded, withholdingAmount)
        annualIncome == AnnualIncome(calcs, amountNum)
        taxBreakdown == calculateDetailedTax(annualIncome, profile)
    IN  [id |-> clock,
         amount |-> amountNum,
         includesTax |-> isTaxIncluded,
         hasWithholding |-> isWithheld,
         withholdingAmount |-> withholdingAmount,
         depositAmount |-> depositAmount,
         estimatedTakeHome |-> EstimatedTakeHome(depositAmount, taxBreakdown.total),
         taxBreakdown |-> taxBreakdown]

\* if (isNaN(amountNum) || amountNum <= 0) return
Rejected(text) == isNaN(parseFloat(text)) \/ parseFloat(text) <= 0

\* The fields of the form (amount, includesTax, hasWithholding) are the inputs
\* of the handler; its reset of the form after a calculation is not modelled.
\* checks holds the pairs <<includesTax, hasWithholding>> of the two checkboxes.
handleCalculate(texts, checks) ==
    \E amount \in texts, check \in checks :
        IF Rejected(amount) THEN UNCHANGED vars
        ELSE /\ LET newCalculation ==
                        NewCalculation(calculations, settings, amount, check[1],
                                       check[2], now)
                IN  /\ result' = <<newCalculation>>
                    /\ saveCalculations(Append(calculations, newCalculation))
             /\ UNCHANGED <<settings, loadData, storageKind, now, fetched, wVars, tVars, bVars>>

handleDelete ==
    \E i \in DOMAIN calculations :
        /\ saveCalculations(SelectSeq(calculations,
                                      LAMBDA calc : calc.id # calculations[i].id))
        /\ UNCHANGED <<settings, result, loadData, storageKind, now, fetched, wVars,
                       tVars, bVars>>

(***************************************************************************)
(* The settings view: every field saves the changed settings               *)
(***************************************************************************)
ChangeBlueReturnType(options) ==
    \E v \in options :
        /\ saveSettings([settings EXCEPT !.blueReturnType = v])
        /\ UNCHANGED <<wVars, tVars, bVars>>

\* parseInt of a position of the range input (0 to 80 in steps of 5)
ChangeExpenseRate(positions) ==
    \E v \in positions :
        /\ saveSettings([settings EXCEPT !.expenseRate = v])
        /\ UNCHANGED <<wVars, tVars, bVars>>

ChangePrefecture(options) ==
    \E v \in options :
        /\ saveSettings([settings EXCEPT !.prefecture = v])
        /\ UNCHANGED <<wVars, tVars, bVars>>

ChangeBusinessType(options) ==
    \E v \in options :
        /\ saveSettings([settings EXCEPT !.businessType = v])
        /\ UNCHANGED <<wVars, tVars, bVars>>

ChangeSpouseDeduction ==
    /\ saveSettings([settings EXCEPT !.spouseDeduction = ~settings.spouseDeduction])
    /\ UNCHANGED <<wVars, tVars, bVars>>

ChangeDependents(texts) ==
    \E text \in texts :
        /\ saveSettings([settings EXCEPT !.dependents = parseIntOr0(text)])
        /\ UNCHANGED <<wVars, tVars, bVars>>

(***************************************************************************)
(* Mount: the effect runs loadData, which awaits the two reads in turn.     *)
(* A read is a promise: the store is read at some moment after the call    *)
(* (ReadCalculations, ReadSettings) and the value is delivered to the      *)
(* component at a later one (LoadCalculations, LoadSettings).              *)
(***************************************************************************)
\* await getFromStorage('calculations'): the store is read
ReadCalculations ==
    /\ loadData = "calculations"
    /\ fetched' = <<getFromStorage("calculations")>>
    /\ loadData' = "calculationsRead"
    /\ UNCHANGED <<calculations, settings, result, windowStorage, localStorage,
                   storageKind, now, wVars, tVars, bVars>>

\* if (storedCalcs) setCalculations(JSON.parse(storedCalcs))
LoadCalculations ==
    /\ loadData = "calculationsRead"
    /\ LET storedCalcs == fetched[1]
       IN  calculations' = IF storedCalcs # <<>> THEN storedCalcs[1] ELSE calculations
    /\ loadData' = "settings"
    /\ fetched' = <<>>
    /\ UNCHANGED <<settings, result, windowStorage, localStorage, storageKind, now,
                   wVars, tVars, bVars>>

\* await getFromStorage('user-settings'): the store is read
ReadSettings ==
    /\ loadData = "settings"
    /\ fetched' = <<getFromStorage("settings")>>
    /\ loadData' = "settingsRead"
    /\ UNCHANGED <<calculations, settings, result, windowStorage, localStorage,
                   storageKind, now, wVars, tVars, bVars>>

\* if (storedSettings) setSettings(JSON.parse(storedSettings))
LoadSettings ==
    /\ loadData = "settingsRead"
    /\ LET storedSettings == fetched[1]
       IN  settings' = IF storedSettings # <<>> THEN storedSettings[1] ELSE settings
    /\ loadData' = "done"
    /\ fetched' = <<>>
    /\ UNCHANGED <<calculations, result, windowStorage, localStorage, storageKind,
                   now, wVars, tVars, bVars>>

\* The page is opened again: the component is mounted with its initial state
Reload ==
    /\ calculations' = <<>>
    /\ settings' = DefaultSettings
    /\ result' = <<>>
    /\ loadData' = "calculations"
    /\ fetched' = <<>>
    /\ UNCHANGED <<windowStorage, localStorage, storageKind, now, wVars, tVars, bVars>>

Tick ==
    /\ now < MaxClock
    /\ now' = now + 1
    /\ UNCHANGED <<calculations, settings, result, loadData, windowStorage,
                   localStorage, storageKind, fetched, wVars, tVars, bVars>>

StorageKinds == {"working", "absent", "throwing"}

AppInit ==
    /\ calculations = <<>>
    /\ settings = DefaultSettings
    /\ result = <<>>
    /\ loadData = "calculations"
    /\ windowStorage = EmptyStore
    /\ localStorage = EmptyStore
    /\ storageKind \in StorageKinds
    /\ now = 0
    /\ fetched = <<>>

IdleW == wAmount = 0 /\ wIncludesTax = FALSE /\ wResult = <<>>
IdleT == tIncome = 0 /\ tSettings = DefaultSettings /\ tResult = <<>> /\ tPrev = <<>>
IdleB == bTaxable = 0 /\ bResult = <<>>

Init == AppInit /\ IdleW /\ IdleT /\ IdleB

\* The checkboxes as the form starts with them, and with both cleared
FormChecks == {<<TRUE, TRUE>>, <<FALSE, FALSE>>}

\* The calculate button, while the history is within the bound of the model
Calculate ==
    /\ Len(calculations) < MaxHistory
    /\ handleCalculate(AmountInputs, FormChecks)

Next ==
    \/ Calculate
    \/ handleDelete
    \/ ChangeExpenseRate({80})
    \/ ReadCalculations
    \/ LoadCalculations
    \/ ReadSettings
    \/ LoadSettings
    \/ Reload
    \/ Tick

Spec == Init /\ [][Next]_vars

(***************************************************************************)
(* The calculator and the history view after the load of an empty store:   *)
(* with every setting of the checkboxes (SpecCalculate), and with          *)
(* histories longer than the three records the estimate of the annual      *)
(* income looks at (SpecRecent).                                           *)
(***************************************************************************)
MaxRecent == 5

RecentAmounts == {"-5", "1e308", "100000", "1000000"}

AllChecks == BOOLEAN \X BOOLEAN

CalculateAllChecks ==
    /\ Len(calculations) < MaxHistory
    /\ handleCalculate(RecentAmounts, AllChecks)

\* The checkboxes as the form starts with them
DefaultChecks == {<<TRUE, TRUE>>}

CalculateRecent ==
    /\ Len(calculations) < MaxRecent
    /\ handleCalculate(RecentAmounts, DefaultChecks)

InitCalculate ==
    /\ calculations = <<>>
    /\ settings = DefaultSettings
    /\ result = <<>>
    /\ loadData = "done"
    /\ windowStorage = EmptyStore
    /\ localStorage = EmptyStore
    /\ storageKind = "working"
    /\ now = 0
    /\ fetched = <<>>
    /\ IdleW
    /\ IdleT
    /\ IdleB

NextCalculate == CalculateAllChecks \/ handleDelete \/ Tick

SpecCalculate == InitCalculate /\ [][NextCalculate]_vars

NextRecent == CalculateRecent \/ handleDelete \/ Tick

SpecRecent == InitCalculate /\ [][NextRecent]_vars

(***************************************************************************)
(* The settings view alone, with the options of its fields.                *)
(***************************************************************************)
BlueReturnOptions == {"65", "55", "10", "white"}
ExpenseRatePositions == {0, 30, 80}
BusinessTypeOptions == {"Programming", "Exempt"}

NextSettings ==
    \/ ChangeBlueReturnType({"white"})
    \/ ChangeExpenseRate({0, 80})
    \/ ChangePrefecture({"Hokkaido"})
    \/ ChangeBusinessType({"Exempt"})
    \/ ChangeSpouseDeduction
    \/ ChangeDependents(DependentsInputs)
    \/ ReadCalculations
    \/ LoadCalculations
    \/ ReadSettings
    \/ LoadSettings
    \/ Reload

SpecSettings == Init /\ [][NextSettings]_vars

(***************************************************************************)
(* calculateWithholding and calculateDetailedTax as functions: the inputs  *)
(* are drawn at the start and the function is applied to them.             *)
(***************************************************************************)
AmountStep == 11000
MaxAmountSteps == 110
MaxOffset == 12

\* Whole amounts up to 1,210,000 and the amounts around the two tier edges
WithholdingAmounts ==
    {k * AmountStep : k \in 1..MaxAmountSteps}
        \cup {1000000 + o : o \in (0 - MaxOffset)..MaxOffset}
        \cup {1100000 + o : o \in (0 - MaxOffset)..MaxOffset}

EvaluateWithholding ==
    /\ wResult = <<>>
    /\ wResult' = <<calculateWithholding(Exact(wAmount), wIncludesTax)>>
    /\ UNCHANGED <<wAmount, wIncludesTax, appVars, tVars, bVars>>

InitWithholding ==
    /\ AppInit /\ storageKind = "working" /\ IdleT /\ IdleB
    /\ wAmount \in WithholdingAmounts
    /\ wIncludesTax \in BOOLEAN
    /\ wResult = <<>>

SpecWithholding == InitWithholding /\ [][EvaluateWithholding]_vars

IncomeStep == 250000
MaxIncomeSteps == 80

IncomeGrid == {k * IncomeStep : k \in 0..MaxIncomeSteps}

\* Region keys: entries of the table, keys that are no entry, and a key that
\* is no entry but names a property of Object.prototype
RegionKeys == {"Tokyo", "Hokkaido", "Other", "Okinawa", "", "constructor"}

TaxProfiles ==
    [blueReturnType : BlueReturnOptions,
     spouseDeduction : BOOLEAN,
     dependents : {0, 2, -1},
     expenseRate : ExpenseRatePositions,
     prefecture : RegionKeys,
     businessType : BusinessTypeOptions]

EvaluateTax ==
    /\ tResult = <<>>
    /\ tResult' = <<calculateDetailedTax(tIncome, tSettings)>>
    /\ UNCHANGED <<tIncome, tSettings, tPrev, appVars, wVars, bVars>>

InitTax ==
    /\ AppInit /\ storageKind = "working" /\ IdleW /\ IdleB
    /\ tIncome \in IncomeGrid
    /\ tSettings \in TaxProfiles
    /\ tResult = <<>>
    /\ tPrev = <<>>

SpecTax == InitTax /\ [][EvaluateTax]_vars

\* The function applied to two incomes in turn, the profile held fixed
RaiseGrid == {2 * k * IncomeStep : k \in 0..(MaxIncomeSteps \div 2)}

RaiseProfiles ==
    [blueReturnType : {"65", "white"},
     spouseDeduction : {FALSE},
     dependents : {0, -1},
     expenseRate : ExpenseRatePositions,
     prefecture : {"Tokyo", "Hokkaido", "Okinawa"},
     businessType : BusinessTypeOptions]

RaiseIncome ==
    /\ tResult # <<>>
    /\ tPrev = <<>>
    /\ \E b \in RaiseGrid :
        /\ b >= tIncome
        /\ tPrev' = <<tIncome, tResult[1].total>>
        /\ tIncome' = b
        /\ tResult' = <<calculateDetailedTax(b, tSettings)>>
    /\ UNCHANGED <<tSettings, appVars, wVars, bVars>>

InitRaise ==
    /\ AppInit /\ storageKind = "working" /\ IdleW /\ IdleB
    /\ tIncome \in RaiseGrid
    /\ tSettings \in RaiseProfiles
    /\ tResult = <<>>
    /\ tPrev = <<>>

NextRaise == EvaluateTax \/ RaiseIncome

SpecTaxRaise == InitRaise /\ [][NextRaise]_vars

(***************************************************************************)
(* The income tax of calculateDetailedTax for one taxable income, in whole *)
(* yen on a grid and around the thresholds of the brackets.                *)
(***************************************************************************)
BracketStep == 100000
MaxBracketSteps == 120
BracketOffset == 10

BracketThresholds == {1950000, 3300000, 6950000, 9000000}

TaxableIncomes ==
    {k * BracketStep : k \in 0..MaxBracketSteps}
        \cup {T + o : T \in BracketThresholds, o \in 0..BracketOffset}
        \cup {T - o : T \in BracketThresholds, o \in 0..BracketOffset}

EvaluateIncomeTax ==
    /\ bResult = <<>>
    /\ bResult' = <<IncomeTax(100 * bTaxable)>>
    /\ UNCHANGED <<bTaxable, appVars, wVars, tVars>>

InitBracket ==
    /\ AppInit /\ storageKind = "working" /\ IdleW /\ IdleT
    /\ bTaxable \in TaxableIncomes
    /\ bResult = <<>>

SpecBracket == InitBracket /\ [][EvaluateIncomeTax]_vars

(***************************************************************************)
(* The claims.                                                             *)
(***************************************************************************)
\* floor(a * m / d) for a >= 0, written out
FloorOf(a, m, d) == (a \div d) * m + ((a % d) * m) \div d

\* A stored value that is a number: not NaN, not Infinity, not null
IsFiniteValue(x) == x \notin {NaN, PosInf, Null}

FiniteBreakdown(b) ==
    /\ IsFiniteValue(b.incomeTax)
    /\ IsFiniteValue(b.residentTax)
    /\ IsFiniteValue(b.healthInsurance)
    /\ IsFiniteValue(b.pension)
    /\ IsFiniteValue(b.businessTax)
    /\ IsFiniteValue(b.total)

\* C1: handleCalculate produces no record for an amount that is not a number,
\* not finite or not positive, so that no record of the history holds a
\* non-finite amount or a non-finite tax figure.
C1_NoNonFiniteRecord ==
    \A i \in DOMAIN calculations :
        /\ IsFiniteValue(calculations[i].amount)
        /\ calculations[i].amount > 0
        /\ IsFiniteValue(calculations[i].withholdingAmount)
        /\ FiniteBreakdown(calculations[i].taxBreakdown)

\* C2: without included tax the withholding is floor(amount * 0.1021) below
\* 1,000,000 and floor(amount * 0.2042) from 1,000,000 on.
C2_WithholdingTiers ==
    (wResult # <<>> /\ ~wIncludesTax) =>
        wResult[1] = IF wAmount < 1000000 THEN FloorOf(wAmount, 1021, 10000)
                     ELSE FloorOf(wAmount, 2042, 10000)

C2_Witness == wResult = <<204200>> /\ wAmount = 1000000 /\ ~wIncludesTax

\* C3: calculateWithholding(amount, true) is calculateWithholding(amount / 1.1,
\* false); the tier is chosen from the tax-exclusive base, so an amount with
\* tax in [1,000,000, 1,100,000) is withheld at 10.21% of amount / 1.1 (the
\* floor taken in binary64 is the exact floor or one below it).
C3_TierFromTaxExclusiveBase ==
    (wResult # <<>> /\ wIncludesTax) =>
        /\ wResult[1] = calculateWithholding(Div1_1(Exact(wAmount)), FALSE)
        /\ (wAmount >= 1000000 /\ wAmount < 1100000) =>
               wResult[1] \in {FloorOf(wAmount, 1021, 11000) - 1,
                               FloorOf(wAmount, 1021, 11000)}

C3_Witness == wResult = <<92818>> /\ wAmount = 1000000 /\ wIncludesTax

\* C4: in the taxBreakdown of every record of the history, total is the sum of
\* incomeTax, residentTax, healthInsurance, pension and businessTax.
C4_TotalIsSum ==
    \A i \in DOMAIN calculations :
        LET b == calculations[i].taxBreakdown
        IN  /\ FiniteBreakdown(b)
            /\ b.total = b.incomeTax + b.residentTax + b.healthInsurance
                             + b.pension + b.businessTax

\* C5: taxable income is never negative; when revenue after expenses is at most
\* the sum of the deductions, taxable income is 0, incomeTax is 0 and
\* residentTax is 5,000.
C5_TaxableIncomeClamped ==
    tResult # <<>> =>
        /\ TaxableIncome(tIncome, tSettings) >= 0
        /\ Revenue(tIncome, tSettings) <= 100 * Deductions(tSettings) =>
               /\ TaxableIncome(tIncome, tSettings) = 0
               /\ tResult[1].incomeTax = 0
               /\ tResult[1].residentTax = 5000

C5_Witness ==
    /\ tResult # <<>>
    /\ tIncome > 0
    /\ Revenue(tIncome, tSettings) < 100 * Deductions(tSettings)
    /\ tResult[1].incomeTax = 0
    /\ tResult[1].residentTax = 5000

\* C6: with every profile the settings view and the initial load can produce,
\* every field of the breakdown is a number >= 0, for annual incomes >= 0.
SettingsIncomes == {8 * k * IncomeStep : k \in 0..(MaxIncomeSteps \div 8)}

NonNegativeBreakdown(b) ==
    /\ FiniteBreakdown(b)
    /\ b.incomeTax >= 0
    /\ b.residentTax >= 0
    /\ b.healthInsurance >= 0
    /\ b.pension >= 0
    /\ b.businessTax >= 0
    /\ b.total >= 0

C6_BreakdownNonNegative ==
    \A a \in SettingsIncomes : NonNegativeBreakdown(calculateDetailedTax(a, settings))

C6_Witness ==
    /\ loadData = "done"
    /\ getFromStorage("settings") = <<settings>>
    /\ settings.dependents = -1
    /\ settings.blueReturnType = "white"
    /\ settings.expenseRate = 0
    /\ calculateDetailedTax(2 * 8 * IncomeStep, settings).incomeTax > 0

\* C7: healthInsurance never exceeds 1,020,000, and below that it is
\* floor(revenue * incomeRate) + flatRate of the region.
RegionRate(prefecture) ==
    IF prefecture \in Prefectures THEN HEALTH_INSURANCE_RATES[prefecture]
    ELSE HEALTH_INSURANCE_RATES["Other"]

Uncapped(annualIncome, profile) ==
    FloorOf(Revenue(annualIncome, profile), RegionRate(profile.prefecture).incomeRate,
            1000000) + RegionRate(profile.prefecture).flatRate

C7_HealthInsuranceCap ==
    (tResult # <<>> /\ tResult[1].healthInsurance # NaN) =>
        /\ tResult[1].healthInsurance <= 1020000
        /\ tResult[1].healthInsurance < 1020000 =>
               tResult[1].healthInsurance = Uncapped(tIncome, tSettings)

C7_Witness ==
    /\ tResult # <<>>
    /\ tResult[1].healthInsurance = 1020000
    /\ Uncapped(tIncome, tSettings) > 1020000

\* C8: businessTax is 0 when the business type is not taxable or revenue is at
\* most 2,900,000, and floor((revenue - 2,900,000) * 0.05) otherwise.
C8_BusinessTax ==
    tResult # <<>> =>
        tResult[1].businessTax =
            IF tSettings.businessType \notin BUSINESS_TAX_TYPES
                   \/ Revenue(tIncome, tSettings) <= 290000000
                THEN 0
            ELSE (Revenue(tIncome, tSettings) - 290000000) \div 2000

C8_Witness ==
    /\ tResult # <<>>
    /\ tSettings.businessType = "Exempt"
    /\ Revenue(tIncome, tSettings) > 290000000
    /\ tResult[1].businessTax = 0

\* C9: with the profile fixed, total does not decrease from an annual income
\* above the combined-deduction threshold to a higher one.
C9_TotalMonotone ==
    (tPrev # <<>> /\ Revenue(tPrev[1], tSettings) > 100 * Deductions(tSettings)) =>
        tPrev[2] <= tResult[1].total

C9_Witness ==
    /\ tPrev # <<>>
    /\ Revenue(tPrev[1], tSettings) > 100 * Deductions(tSettings)
    /\ TaxableIncome(tPrev[1], tSettings) <= 195000000
    /\ TaxableIncome(tIncome, tSettings) > 900000000
    /\ Revenue(tPrev[1], tSettings) <= 290000000
    /\ tResult[1].businessTax > 0
    /\ tResult[1].healthInsurance = 1020000
    /\ tPrev[2] < tResult[1].total

\* C10: a region key that is no entry of the rate table gives the breakdown of
\* the default bucket, every field of it a number.
C10_RegionFallback ==
    (tResult # <<>> /\ tSettings.prefecture \notin Prefectures) =>
        /\ tResult[1] = calculateDetailedTax(tIncome,
                                             [tSettings EXCEPT !.prefecture = "Other"])
        /\ FiniteBreakdown(tResult[1])

\* C11: the record of an accepted payment holds withholdingAmount =
\* calculateWithholding(amount, includesTax) when hasWithholding is set and 0
\* otherwise, and depositAmount = amount - withholdingAmount when includesTax,
\* else amount + amount * 0.1 - withholdingAmount (amounts in sixtieths of a
\* yen; for an amount of the order 1e308 the deposit is of that order).
C11_WithholdingAndDeposit ==
    result # <<>> =>
        LET c == result[1]
        IN  /\ c.withholdingAmount =
                   IF c.hasWithholding
                       THEN calculateWithholding(Exact(c.amount), c.includesTax)
                   ELSE 0
            /\ c.depositAmount =
                   IF c.amount = Huge THEN Huge
                   ELSE IF c.includesTax THEN 60 * (c.amount - c.withholdingAmount)
                   ELSE 60 * c.amount + 6 * c.amount - 60 * c.withholdingAmount

C11_Witness ==
    /\ result # <<>>
    /\ result[1].amount = 100000
    /\ ~result[1].includesTax
    /\ ~result[1].hasWithholding
    /\ result[1].withholdingAmount = 0
    /\ result[1].depositAmount = 60 * 110000
    /\ \E i \in DOMAIN calculations : calculations[i] = result[1]

\* C12: the annual income handleCalculate passes to calculateDetailedTax is 12
\* times the mean amount of the last min(3, n) records of the history as it
\* stands before the new record is appended (n >= 1), whatever the current
\* amount, and 12 times the current amount when the history is empty.
TwelveTimesMean(amounts) ==
    IF \E i \in DOMAIN amounts : amounts[i] = Huge THEN PosInf
    ELSE IF Len(amounts) = 1 THEN 12 * amounts[1]
    ELSE IF Len(amounts) = 2 THEN 6 * (amounts[1] + amounts[2])
    ELSE 4 * (amounts[1] + amounts[2] + amounts[3])

TrailingAmounts(history) ==
    LET n == Len(history)
    IN  [i \in 1..Min(3, n) |-> history[n - Min(3, n) + i].amount]

C12_Step ==
    Len(calculations') = Len(calculations) + 1 =>
        /\ calculations' = Append(calculations, result'[1])
        /\ result'[1].taxBreakdown =
               calculateDetailedTax(
                   IF calculations = <<>> THEN TwelveTimesMean(<<result'[1].amount>>)
                   ELSE TwelveTimesMean(TrailingAmounts(calculations)),
                   settings)

C12_AnnualIncomeFromHistory == [][C12_Step]_vars

\* A fifth record made after four of 1,000,000, 100,000, 100,000, 100,000:
\* its breakdown is the one of 12 * 100,000, not of the mean of all four
C12_Witness ==
    /\ Len(calculations) = 5
    /\ result # <<>>
    /\ result[1] = calculations[5]
    /\ calculations[1].amount = 1000000
    /\ \A i \in 2..4 : calculations[i].amount = 100000
    /\ calculations[5].amount = 1000000
    /\ \A i \in 1..4 : calculations[i].id = 0
    /\ calculations[5].id = 1
    /\ calculations[5].taxBreakdown = calculateDetailedTax(1200000, settings)
    /\ calculations[5].taxBreakdown # calculateDetailedTax(3900000, settings)

\* C13: whatever the platform store does (works, is absent, throws on write),
\* the history written by saveCalculations and the settings written by
\* saveSettings are what getFromStorage of the same key returns afterwards
\* (the history as JSON renders it).
C13_Step ==
    /\ (Calculate \/ handleDelete) =>
           getFromStorage("calculations")' = <<JsonCalculations(calculations')>>
    /\ ChangeExpenseRate({80}) => getFromStorage("settings")' = <<settings'>>

C13_SavedIsLoaded == [][C13_Step]_vars

\* C14: within one mount the history in memory is append-only except for
\* explicit removal: a step leaves it unchanged, or appends one record at its
\* end, or is the handleDelete of an id and removes the records with that id;
\* the load of the mount may fill a history that is still empty.  Records are
\* compared as JSON renders them.
C14_Step ==
    LET before == JsonCalculations(calculations)
        after == JsonCalculations(calculations')
    IN  \/ Reload
        \/ after = before
        \/ Len(after) = Len(before) + 1 /\ SubSeq(after, 1, Len(before)) = before
        \/ \E i \in DOMAIN before :
               after = SelectSeq(before, LAMBDA calc : calc.id # before[i].id)
        \/ before = <<>> /\ LoadCalculations

C14_AppendOnly == [][C14_Step]_vars

\* C15: the records of the history have pairwise distinct ids, also when two
\* calculations are made without the clock advancing between them.
C15_DistinctIds ==
    \A i, j \in DOMAIN calculations :
        i # j => calculations[i].id # calculations[j].id

\* C16: incomeTax is floor(1.021 * S(t)), S the accumulation over the brackets
\* up to 1,950,000 / 3,300,000 / 6,950,000 / 9,000,000 / unbounded at 5 / 10 /
\* 20 / 23 / 33 percent, each slice taxed at its own rate: one yen more of
\* taxable income never lowers the tax and raises it by at most one yen, also
\* across a threshold, and above 9,000,000 the tax stays below the top rate on
\* the whole.
Slice(t, lower, upper) == Max(0, Min(t, upper) - lower)

\* 100 * S(t)
Accumulated(t) ==
    5 * Slice(t, 0, 1950000) + 10 * Slice(t, 1950000, 3300000)
        + 20 * Slice(t, 3300000, 6950000) + 23 * Slice(t, 6950000, 9000000)
        + 33 * Max(0, t - 9000000)

C17_TakeHomeUnclamped ==
    result # <<>> =>
        LET c == result[1]
            total == c.taxBreakdown.total
        IN  /\ c.estimatedTakeHome =
                   IF total = NaN THEN NaN
                   ELSE IF c.depositAmount = Huge THEN Huge
                   ELSE c.depositAmount - 5 * total
            /\ (IsOrdinary(c.depositAmount) /\ IsOrdinary(total)) =>
                   (c.estimatedTakeHome < 0 <=> 5 * total > c.depositAmount)

C17_Witness ==
    /\ result # <<>>
    /\ IsOrdinary(result[1].estimatedTakeHome)
    /\ result[1].estimatedTakeHome < 0
    /\ result[1].estimatedTakeHome % 60 # 0
    /\ Len(calculations) = 2
    /\ calculations[2] = result[1]
    /\ getFromStorage("calculations") = <<calculations>>

\* C18: however the load of the mount interleaves with handleCalculate and
\* handleDelete, (a) no record of the persisted history leaves it except in a
\* handleDelete of its id, and (b) once the load has completed the history in
\* memory is the persisted one (stated for a working platform store; the other
\* stores are the subject of C13).
StoredCalculations ==
    IF getFromStorage("calculations") = <<>> THEN <<>>
    ELSE getFromStorage("calculations")[1]

C18_Step ==
    /\ \A k \in DOMAIN StoredCalculations :
           \/ \E j \in DOMAIN StoredCalculations' :
                  StoredCalculations'[j] = StoredCalculations[k]
           \/ /\ \E i \in DOMAIN calculations :
                      calculations[i].id = StoredCalculations[k].id
              /\ calculations' =
                     SelectSeq(calculations,
                               LAMBDA calc : calc.id # StoredCalculations[k].id)
    /\ (storageKind = "working" /\ loadData' = "done") =>
           StoredCalculations' = JsonCalculations(calculations')

C18_LoadRace == [][C18_Step]_vars

====
